---- MODULE Spec2Model ----
(***************************************************************************)
(* Model of the blanket derive engine: the dispatcher of derive/mod.rs and *)
(* the per-wrapper derive functions of derive/box.rs and derive/rc.rs.     *)
(* The helpers of crate::utils and the `ref` / `mut` strategies are not    *)
(* part of the available sources; they are modelled from the design text.  *)
(*                                                                         *)
(* Identifiers are sequences of characters, so that the abbreviation of a  *)
(* trait name is computed and not assumed.  A syntax tree is a record.     *)
(***************************************************************************)
EXTENDS Integers, Sequences, FiniteSets, TLC

VARIABLES
    trait_,     \* the syn::ItemTrait handed to the engine (never modified)
    token,      \* the string handed to Derive::from_str
    derive,     \* Option<Derive> returned by from_str ("None" for None)
    strategy,   \* the derive function running: "box", "rc", "ref", "mut"
    pc,         \* "start", "parsed", "loop", "done"
    idx,        \* position of the `for item in trait_.items.iter()` loop
    methods,    \* the local `methods: Vec<syn::ImplItemMethod>`
    result      \* what derive returned (or that it panicked)

vars == <<trait_, token, derive, strategy, pc, idx, methods, result>>

(***************************************************************************)
(* Bounds of the explored inputs.                                          *)
(***************************************************************************)
MaxItems == 2
MaxGenerics == 2

(***************************************************************************)
(* Identifiers.                                                            *)
(***************************************************************************)
UpperCase ==
    {"A", "B", "C", "D", "E", "F", "G", "H", "I", "J", "K", "L", "M",
     "N", "O", "P", "Q", "R", "S", "T", "U", "V", "W", "X", "Y", "Z"}

IdTrait == <<"T", "r", "a", "i", "t">>
IdMyTrait == <<"M", "y", "T", "r", "a", "i", "t">>
IdT == <<"T">>
IdLa == <<"'", "a">>
IdLb == <<"'", "b">>
IdStatic == <<"'", "s", "t", "a", "t", "i", "c">>
IdSend == <<"S", "e", "n", "d">>
IdSized == <<"?", "S", "i", "z", "e", "d">>

TraitNames == {IdTrait, IdMyTrait}

(***************************************************************************)
(* Generic parameters: a kind, a name and the declared bounds.             *)
(***************************************************************************)
Bound(path, args) == [path |-> path, args |-> args]

GenericParam(kind, ident, bounds) ==
    [kind |-> kind, ident |-> ident, bounds |-> bounds]

GenericParams ==
    { GenericParam("Type", IdT, <<>>),
      GenericParam("Type", IdT, <<Bound(IdStatic, <<>>), Bound(IdSend, <<>>)>>),
      GenericParam("Lifetime", IdLa, <<>>),
      GenericParam("Lifetime", IdLb, <<Bound(IdLa, <<>>)>>) }

DistinctIdents(g) ==
    \A j, k \in 1..Len(g) : j # k => g[j].ident # g[k].ident

GenericLists ==
    { g \in UNION { [1..n -> GenericParams] : n \in 0..MaxGenerics } :
        DistinctIdents(g) }

(***************************************************************************)
(* Method signatures and trait items.  `receiver` is what                  *)
(* syn::Signature::receiver() returns: None, a FnArg::Receiver with its    *)
(* `reference` and `mutability` markers, or a FnArg::Typed `self: Type`.   *)
(***************************************************************************)
Recv(arg, reference, mutability) ==
    [arg |-> arg, reference |-> reference, mutability |-> mutability]

NoReceiver == Recv("None", FALSE, FALSE)
SelfValue == Recv("Receiver", FALSE, FALSE)
MutSelfValue == Recv("Receiver", FALSE, TRUE)
RefSelf == Recv("Receiver", TRUE, FALSE)
RefMutSelf == Recv("Receiver", TRUE, TRUE)
TypedSelf == Recv("Typed", FALSE, FALSE)

Signature(ident, receiver, inputs, output) ==
    [ident |-> ident, receiver |-> receiver, inputs |-> inputs, output |-> output]

TraitItem(item, sig) == [item |-> item, sig |-> sig]

TraitItems ==
    { TraitItem("Method", Signature("area", RefSelf, <<>>, "f64")),
      TraitItem("Method", Signature("resize", RefMutSelf, <<"w", "h">>, "")),
      TraitItem("Method", Signature("into_inner", SelfValue, <<>>, "u8")),
      TraitItem("Method", Signature("consume", MutSelfValue, <<"n">>, "")),
      TraitItem("Method", Signature("boxed", TypedSelf, <<>>, "")),
      TraitItem("Method", Signature("new", NoReceiver, <<"n">>, "Self")),
      TraitItem("Type", Signature("Item", NoReceiver, <<>>, "")),
      TraitItem("Const", Signature("N", NoReceiver, <<>>, "usize")) }

ItemLists == UNION { [1..n -> TraitItems] : n \in 0..MaxItems }

\* The optional where clause: absent, or one opaque predicate list.
WhereClauses == {<<>>, <<"Self: Sized">>}

Traits ==
    { [ident |-> n, generics |-> g, where_clause |-> w, items |-> it] :
        n \in TraitNames, g \in GenericLists, w \in WhereClauses,
        it \in ItemLists }

(***************************************************************************)
(* Results of derive.                                                      *)
(***************************************************************************)
NoImpl ==
    [attrs |-> <<>>, generics |-> <<>>, trait_ident |-> <<>>,
     trait_args |-> <<>>, wrapper |-> "", self_arg |-> <<>>,
     where_clause |-> <<>>, items |-> <<>>]

NoSpan == [item |-> 0, node |-> ""]

Pending == [tag |-> "Pending", msg |-> "", span |-> NoSpan, impl |-> NoImpl]
Panic == [tag |-> "Panic", msg |-> "not implemented", span |-> NoSpan, impl |-> NoImpl]
Err(span, msg) == [tag |-> "Err", msg |-> msg, span |-> span, impl |-> NoImpl]
Ok(impl) == [tag |-> "Ok", msg |-> "", span |-> NoSpan, impl |-> impl]

(***************************************************************************)
(* crate::utils (not among the available sources; from the design text).   *)
(***************************************************************************)

\* An expression is the sequence of its tokens, outermost first:
\* self dereferenced twice is <<"*", "*", "self">>.
deref_expr(e) == <<"*">> \o e

\* `self.<name>(<arg1>, <arg2>, ...)`: the non-receiver parameters, by name,
\* in declared order; the receiver is left to the calling strategy.
signature_to_method_call(sig) ==
    [receiver |-> <<"self">>, method |-> sig.ident, args |-> sig.inputs]

\* The usage form of a declaration list: same names, same order, no bounds.
generics_declaration_to_generics(params) ==
    [k \in 1..Len(params) |->
        GenericParam(params[k].kind, params[k].ident, <<>>)]

\* MyTrait -> MT, Trait -> T.
Abbreviation(ident) == SelectSeq(ident, LAMBDA c : c \in UpperCase)

DeclaredIdents(t) == { t.generics[k].ident : k \in 1..Len(t.generics) }

RECURSIVE FreshIdent(_, _)
FreshIdent(candidate, used) ==
    IF candidate \notin used THEN candidate
    ELSE FreshIdent(candidate \o <<"_">>, used)

\* The mutant: the abbreviation alone, whatever the trait declares.
trait_to_generic_ident_unchecked(t) == Abbreviation(t.ident)

\* The abbreviation of the trait's name, made distinct from every generic
\* parameter name the trait declares.
trait_to_generic_ident(t) ==
    FreshIdent(Abbreviation(t.ident), DeclaredIdents(t))

(***************************************************************************)
(* The receiver classifier of the design text: the closed set of receiver  *)
(* kinds the forwarding policies are stated over.                          *)
(***************************************************************************)
ReceiverKind(r) ==
    CASE r.arg = "None" -> "None"
      [] r.arg = "Typed" -> "ArbitraryTyped"
      [] r.arg = "Receiver" /\ r.reference /\ ~r.mutability -> "ByRef"
      [] r.arg = "Receiver" /\ r.reference /\ r.mutability -> "ByRefMut"
      [] OTHER -> "ByValue"

(***************************************************************************)
(* derive/mod.rs                                                           *)
(***************************************************************************)
from_str(s) ==
    CASE s = "Box" -> "Box"
      [] s = "Ref" -> "Ref"
      [] s = "Mut" -> "Mut"
      [] OTHER -> "None"

\* The module whose derive() defer_trait_methods calls.
defer_trait_methods(d) ==
    CASE d = "Box" -> "box"
      [] d = "Ref" -> "ref"
      [] d = "Mut" -> "mut"

(***************************************************************************)
(* One iteration of `for item in trait_.items.iter()`: the item is         *)
(* skipped, a method is pushed, derive returns Err, or derive panics.      *)
(* The messages are the source's, with its backquotes written as quotes.   *)
(***************************************************************************)
MsgBoxArbitrary ==
    "cannot derive 'Box' for a trait declaring methods with arbitrary receiver types"
MsgRcMutSelf ==
    "cannot derive 'Rc' for a trait declaring '&mut self' methods"
MsgRcSelf ==
    "cannot derive 'Rc' for a trait declaring 'self' methods"
MsgRcArbitrary ==
    "cannot derive 'Rc' for a trait declaring methods with arbitrary receiver types"
MsgRefMutSelf ==
    "cannot derive 'Ref' for a trait declaring '&mut self' methods"
MsgRefSelf ==
    "cannot derive 'Ref' for a trait declaring 'self' methods"
MsgRefArbitrary ==
    "cannot derive 'Ref' for a trait declaring methods with arbitrary receiver types"
MsgRefNoReceiver ==
    "cannot derive 'Ref' for a trait declaring methods without a receiver"
MsgMutSelf ==
    "cannot derive 'Mut' for a trait declaring 'self' methods"
MsgMutArbitrary ==
    "cannot derive 'Mut' for a trait declaring methods with arbitrary receiver types"
MsgMutNoReceiver ==
    "cannot derive 'Mut' for a trait declaring methods without a receiver"

ImplItemMethod(sig, call) ==
    [attrs |-> <<"inline">>, sig |-> sig, call |-> call]

NoMethod == ImplItemMethod(Signature("", NoReceiver, <<>>, ""),
                           [receiver |-> <<>>, method |-> "", args |-> <<>>])

Skip == [ctl |-> "Skip", method |-> NoMethod, span |-> NoSpan, msg |-> ""]
Push(m) == [ctl |-> "Push", method |-> m, span |-> NoSpan, msg |-> ""]
Fail(span, msg) == [ctl |-> "Err", method |-> NoMethod, span |-> span, msg |-> msg]
Unimplemented == [ctl |-> "Panic", method |-> NoMethod, span |-> NoSpan, msg |-> ""]

Forward(sig, depth) ==
    LET call == signature_to_method_call(sig)
        recv == IF depth = 2 THEN deref_expr(deref_expr(call.receiver))
                ELSE deref_expr(call.receiver)
    IN  ImplItemMethod(sig, [call EXCEPT !.receiver = recv])

ReceiverSpan(i) == [item |-> i, node |-> "receiver"]

\* Mutant: a by-value receiver is dereferenced twice, like a reference.
box_item_deref_twice(item, i) ==
    IF item.item # "Method" THEN Skip
    ELSE LET r == item.sig.receiver IN
         CASE r.arg = "None" -> Unimplemented
           [] r.arg = "Typed" ->
                Fail(ReceiverSpan(i), MsgBoxArbitrary)
           [] OTHER -> Push(Forward(item.sig, 2))

\* derive/box.rs, the loop body.
box_item(item, i) ==
    IF item.item # "Method" THEN Skip
    ELSE LET r == item.sig.receiver IN
         CASE r.arg = "None" -> Unimplemented
           [] r.arg = "Typed" ->
                Fail(ReceiverSpan(i), MsgBoxArbitrary)
           [] r.arg = "Receiver" /\ r.reference -> Push(Forward(item.sig, 2))
           [] OTHER -> Push(Forward(item.sig, 1))

\* Mutant: an item that is not a method is reported instead of skipped.
rc_item_no_skip(item, i) ==
    LET r == item.sig.receiver IN
    IF item.item # "Method" THEN
        Fail(ReceiverSpan(i), MsgRcSelf)
    ELSE IF r.arg = "Receiver" /\ r.mutability THEN
        Fail(ReceiverSpan(i), MsgRcMutSelf)
    ELSE IF r.arg = "Receiver" /\ ~r.reference THEN
        Fail(ReceiverSpan(i), MsgRcSelf)
    ELSE IF r.arg = "Typed" THEN
        Fail(ReceiverSpan(i), MsgRcArbitrary)
    ELSE Push(Forward(item.sig, 2))

\* derive/rc.rs, the loop body.  The receiver checks run only
\* `if let Some(receiver) = m.sig.receiver()`, in the order of the match arms;
\* a method that passes them (or has no receiver) is forwarded.
rc_item(item, i) ==
    LET r == item.sig.receiver IN
    IF item.item # "Method" THEN Skip
    ELSE IF r.arg = "Receiver" /\ r.mutability THEN
        Fail(ReceiverSpan(i), MsgRcMutSelf)
    ELSE IF r.arg = "Receiver" /\ ~r.reference THEN
        Fail(ReceiverSpan(i), MsgRcSelf)
    ELSE IF r.arg = "Typed" THEN
        Fail(ReceiverSpan(i), MsgRcArbitrary)
    ELSE Push(Forward(item.sig, 2))

\* The `ref` strategy (from the forwarding policy table).
ref_item(item, i) ==
    IF item.item # "Method" THEN Skip
    ELSE LET k == ReceiverKind(item.sig.receiver) IN
         CASE k = "ByRef" -> Push(Forward(item.sig, 1))
           [] k = "ByRefMut" ->
                Fail(ReceiverSpan(i), MsgRefMutSelf)
           [] k = "ByValue" ->
                Fail(ReceiverSpan(i), MsgRefSelf)
           [] k = "ArbitraryTyped" ->
                Fail(ReceiverSpan(i), MsgRefArbitrary)
           [] OTHER ->
                Fail([item |-> i, node |-> "signature"], MsgRefNoReceiver)

\* The `mut` strategy (from the forwarding policy table).
mut_item(item, i) ==
    IF item.item # "Method" THEN Skip
    ELSE LET k == ReceiverKind(item.sig.receiver) IN
         CASE k \in {"ByRef", "ByRefMut"} -> Push(Forward(item.sig, 1))
           [] k = "ByValue" ->
                Fail(ReceiverSpan(i), MsgMutSelf)
           [] k = "ArbitraryTyped" ->
                Fail(ReceiverSpan(i), MsgMutArbitrary)
           [] OTHER ->
                Fail([item |-> i, node |-> "signature"], MsgMutNoReceiver)

(***************************************************************************)
(* The impl block built after the loop.                                    *)
(***************************************************************************)
ItemImpl(t, generics, names, wrapper, generic_type, ms) ==
    [attrs |-> <<"automatically_derived">>, generics |-> generics,
     trait_ident |-> t.ident, trait_args |-> names,
     wrapper |-> wrapper, self_arg |-> generic_type,
     where_clause |-> t.where_clause, items |-> ms]

\* Mutant: the synthesized parameter is put first instead of pushed last.
box_impl_push_front(t, ms) ==
    LET generic_type == trait_to_generic_ident(t)
        trait_generic_names == generics_declaration_to_generics(t.generics)
        impl_generics ==
            <<GenericParam("Type", generic_type,
                           <<Bound(t.ident, trait_generic_names)>>)>> \o t.generics
    IN  ItemImpl(t, impl_generics, trait_generic_names, "Box", generic_type, ms)

\* derive/box.rs: impl<G.., MT: Trait<names..>> Trait<names..> for Box<MT>
box_impl(t, ms) ==
    LET generic_type == trait_to_generic_ident(t)
        trait_generic_names == generics_declaration_to_generics(t.generics)
        impl_generics ==
            Append(t.generics,
                   GenericParam("Type", generic_type,
                                <<Bound(t.ident, trait_generic_names)>>))
    IN  ItemImpl(t, impl_generics, trait_generic_names, "Box", generic_type, ms)

\* derive/rc.rs: impl<G.., MT: Trait<names..> + ?Sized> Trait<names..>
\*               for std::rc::Rc<MT>
rc_impl(t, ms) ==
    LET generic_type == trait_to_generic_ident(t)
        trait_generic_names == generics_declaration_to_generics(t.generics)
        impl_generics ==
            Append(t.generics,
                   GenericParam("Type", generic_type,
                                <<Bound(t.ident, trait_generic_names),
                                  Bound(IdSized, <<>>)>>))
    IN  ItemImpl(t, impl_generics, trait_generic_names, "std::rc::Rc", generic_type, ms)

\* The `ref` and `mut` strategies' impl blocks (from the design text).
ref_impl(t, ms) ==
    LET generic_type == trait_to_generic_ident(t)
        trait_generic_names == generics_declaration_to_generics(t.generics)
        impl_generics ==
            Append(t.generics,
                   GenericParam("Type", generic_type,
                                <<Bound(t.ident, trait_generic_names),
                                  Bound(IdSized, <<>>)>>))
    IN  ItemImpl(t, impl_generics, trait_generic_names, "&", generic_type, ms)

mut_impl(t, ms) ==
    LET generic_type == trait_to_generic_ident(t)
        trait_generic_names == generics_declaration_to_generics(t.generics)
        impl_generics ==
            Append(t.generics,
                   GenericParam("Type", generic_type,
                                <<Bound(t.ident, trait_generic_names),
                                  Bound(IdSized, <<>>)>>))
    IN  ItemImpl(t, impl_generics, trait_generic_names, "&mut", generic_type, ms)

(***************************************************************************)
(* The state machine.                                                      *)
(***************************************************************************)
Tokens == {"Box", "Rc", "Ref", "Mut", "box", "RC"}

Init ==
    /\ trait_ \in Traits
    /\ token = ""
    /\ derive = "None"
    /\ strategy = ""
    /\ pc = "start"
    /\ idx = 0
    /\ methods = <<>>
    /\ result = Pending

\* Derive::from_str(token)
FromStr(s) ==
    /\ pc = "start"
    /\ token' = s
    /\ derive' = from_str(s)
    /\ pc' = "parsed"
    /\ UNCHANGED <<trait_, strategy, idx, methods, result>>

\* Derive::defer_trait_methods(&self, trait_) enters the strategy's derive.
DeferTraitMethods ==
    /\ pc = "parsed"
    /\ derive # "None"
    /\ strategy' = defer_trait_methods(derive)
    /\ pc' = "loop"
    /\ idx' = 1
    /\ methods' = <<>>
    /\ UNCHANGED <<trait_, token, derive, result>>

\* rc::derive(&trait_) called directly, as its tests do: mod.rs has no
\* variant that reaches it.
RcDerive ==
    /\ pc = "start"
    /\ strategy' = "rc"
    /\ pc' = "loop"
    /\ idx' = 1
    /\ methods' = <<>>
    /\ UNCHANGED <<trait_, token, derive, result>>

LoopStep(o) ==
    /\ methods' = IF o.ctl = "Push" THEN Append(methods, o.method) ELSE methods
    /\ idx' = IF o.ctl \in {"Push", "Skip"} THEN idx + 1 ELSE idx
    /\ pc' = IF o.ctl \in {"Push", "Skip"} THEN "loop" ELSE "done"
    /\ result' = CASE o.ctl = "Err" -> Err(o.span, o.msg)
                   [] o.ctl = "Panic" -> Panic
                   [] OTHER -> result
    /\ UNCHANGED <<trait_, token, derive, strategy>>

Return(impl) ==
    /\ result' = Ok(impl)
    /\ pc' = "done"
    /\ UNCHANGED <<trait_, token, derive, strategy, idx, methods>>

InLoop(s) == pc = "loop" /\ strategy = s /\ idx <= Len(trait_.items)
AfterLoop(s) == pc = "loop" /\ strategy = s /\ idx > Len(trait_.items)

BoxItem == InLoop("box") /\ LoopStep(box_item(trait_.items[idx], idx))
BoxReturn == AfterLoop("box") /\ Return(box_impl(trait_, methods))

RcItem == InLoop("rc") /\ LoopStep(rc_item(trait_.items[idx], idx))
RcReturn == AfterLoop("rc") /\ Return(rc_impl(trait_, methods))

RefItem == InLoop("ref") /\ LoopStep(ref_item(trait_.items[idx], idx))
RefReturn == AfterLoop("ref") /\ Return(ref_impl(trait_, methods))

MutItem == InLoop("mut") /\ LoopStep(mut_item(trait_.items[idx], idx))
MutReturn == AfterLoop("mut") /\ Return(mut_impl(trait_, methods))

FromStrAny == \E s \in Tokens : FromStr(s)

Next ==
    \/ FromStrAny
    \/ DeferTraitMethods
    \/ RcDerive
    \/ BoxItem
    \/ BoxReturn
    \/ RcItem
    \/ RcReturn
    \/ RefItem
    \/ RefReturn
    \/ MutItem
    \/ MutReturn

Spec == Init /\ [][Next]_vars

(***************************************************************************)
(* Vocabulary of the properties.                                           *)
(***************************************************************************)
FourTokens == {"Box", "Rc", "Ref", "Mut"}

IsMethod(it) == it.item = "Method"

MethodItems(items) == SelectSeq(items, IsMethod)

\* The items the loop has already gone through.
Processed == SubSeq(trait_.items, 1, idx - 1)

Running == strategy # ""

Succeeded == pc = "done" /\ result.tag = "Ok"

\* The receiver kinds the forwarding policy table allows per wrapper.
Allowed(s) ==
    CASE s = "box" -> {"ByValue", "ByRef", "ByRefMut"}
      [] s = "rc" -> {"ByRef"}
      [] s = "ref" -> {"ByRef"}
      [] s = "mut" -> {"ByRef", "ByRefMut"}
      [] OTHER -> {}

Illegal(s, it) ==
    IsMethod(it) /\ ReceiverKind(it.sig.receiver) \notin Allowed(s)

Offenders(s, items) == { k \in 1..Len(items) : Illegal(s, items[k]) }

FirstOffender(s, items) ==
    CHOOSE k \in Offenders(s, items) : \A j \in Offenders(s, items) : k <= j

\* What a diagnostic message names.
WrapperNamed(msg) ==
    CASE msg \in {MsgBoxArbitrary} -> "box"
      [] msg \in {MsgRcMutSelf, MsgRcSelf, MsgRcArbitrary} -> "rc"
      [] msg \in {MsgRefMutSelf, MsgRefSelf, MsgRefArbitrary, MsgRefNoReceiver} -> "ref"
      [] msg \in {MsgMutSelf, MsgMutArbitrary, MsgMutNoReceiver} -> "mut"
      [] OTHER -> ""

ShapeNamed(msg) ==
    CASE msg \in {MsgRcMutSelf, MsgRefMutSelf} -> "ByRefMut"
      [] msg \in {MsgRcSelf, MsgRefSelf, MsgMutSelf} -> "ByValue"
      [] msg \in {MsgBoxArbitrary, MsgRcArbitrary, MsgRefArbitrary, MsgMutArbitrary}
            -> "ArbitraryTyped"
      [] msg \in {MsgRefNoReceiver, MsgMutNoReceiver} -> "None"
      [] OTHER -> ""

(***************************************************************************)
(* C1.  from_str returns a strategy exactly for the four tokens "Box",     *)
(* "Rc", "Ref", "Mut", each token mapping to its own strategy, and no      *)
(* match for any other string.                                             *)
(***************************************************************************)
C1_FourTokensDispatch ==
    pc = "parsed" =>
        /\ (token \in FourTokens => derive = token)
        /\ (token \notin FourTokens => derive = "None")

(***************************************************************************)
(* C2.  For every wrapper kind, an interface with a method that has no     *)
(* receiver is rejected: derive returns an error diagnostic; it neither    *)
(* panics nor returns an implementation.                                   *)
(***************************************************************************)
HasStaticMethod(items) ==
    \E k \in 1..Len(items) :
        IsMethod(items[k]) /\ items[k].sig.receiver.arg = "None"

C2_NoReceiverRejected ==
    (pc = "done" /\ HasStaticMethod(trait_.items)) => result.tag = "Err"

C4_BoxPolicy ==
    strategy = "box" =>
        /\ Len(methods) = Len(MethodItems(Processed))
        /\ \A k \in 1..Len(methods) :
            LET sig == MethodItems(Processed)[k].sig IN
            /\ methods[k].sig = sig
            /\ sig.receiver.arg = "Receiver"
            /\ methods[k].call.receiver =
                 IF sig.receiver.reference THEN <<"*", "*", "self">>
                 ELSE <<"*", "self">>
        /\ (pc = "done" /\ result.tag # "Panic"
              /\ \E k \in 1..Len(trait_.items) :
                    IsMethod(trait_.items[k])
                    /\ trait_.items[k].sig.receiver.arg = "Typed")
           => result.tag = "Err"
        /\ result.tag = "Err" =>
              trait_.items[result.span.item].sig.receiver.arg = "Typed"

\* One method forwarded by value and one by reference, in one derivation.
C4_Witness ==
    /\ strategy = "box"
    /\ Succeeded
    /\ \E j, k \in 1..Len(methods) :
          /\ methods[j].call.receiver = <<"*", "self">>
          /\ methods[k].call.receiver = <<"*", "*", "self">>

(***************************************************************************)
(* C5.  Rc: a forwarding method is produced only for `&self` methods, with *)
(* self dereferenced twice; a by-value, `&mut self` or explicitly typed    *)
(* receiver makes derive return an error and no implementation.            *)
(***************************************************************************)
C5_RcPolicy ==
    strategy = "rc" =>
        /\ \A k \in 1..Len(methods) :
            /\ ReceiverKind(methods[k].sig.receiver) = "ByRef"
            /\ methods[k].call.receiver = <<"*", "*", "self">>
        /\ (pc = "done"
              /\ \E k \in 1..Len(trait_.items) :
                    IsMethod(trait_.items[k])
                    /\ ReceiverKind(trait_.items[k].sig.receiver)
                         \in {"ByValue", "ByRefMut", "ArbitraryTyped"})
           => (result.tag = "Err" /\ result.impl = NoImpl)

(***************************************************************************)
(* C6.  On success the declared parameter list of the implementation is    *)
(* the interface's declaration list, in order and with its bounds,         *)
(* followed by the synthesized type parameter; the implemented trait       *)
(* reference and the synthesized parameter's bound use the same names in   *)
(* the same order with no bounds.                                          *)
(***************************************************************************)
IsUsageOf(args, decl) ==
    /\ Len(args) = Len(decl)
    /\ \A k \in 1..Len(decl) :
        /\ args[k].kind = decl[k].kind
        /\ args[k].ident = decl[k].ident
        /\ args[k].bounds = <<>>

C6_GenericsReplayed ==
    Succeeded =>
        LET g == trait_.generics
            n == Len(g)
            im == result.impl
        IN  /\ Len(im.generics) = n + 1
            /\ SubSeq(im.generics, 1, n) = g
            /\ im.generics[n + 1].kind = "Type"
            /\ im.generics[n + 1].ident = im.self_arg
            /\ im.generics[n + 1].bounds[1].path = trait_.ident
            /\ IsUsageOf(im.generics[n + 1].bounds[1].args, g)
            /\ im.trait_ident = trait_.ident
            /\ IsUsageOf(im.trait_args, g)

\* A lifetime with a bound and a bounded type parameter, both replayed.
C6_Witness ==
    /\ Succeeded
    /\ Len(trait_.generics) >= 2
    /\ \E j, k \in 1..Len(trait_.generics) :
          /\ trait_.generics[j].kind = "Lifetime"
          /\ trait_.generics[k].kind = "Type"
          /\ trait_.generics[k].bounds # <<>>

(***************************************************************************)
(* C7.  When one or more methods are illegal for the wrapper, derive       *)
(* returns one diagnostic, that of the first offending method in declared  *)
(* order, and no implementation.                                           *)
(***************************************************************************)
C7_FirstOffenderReported ==
    (pc = "done" /\ Offenders(strategy, trait_.items) # {}) =>
        /\ result.tag = "Err"
        /\ result.span.item = FirstOffender(strategy, trait_.items)
        /\ result.impl = NoImpl

(***************************************************************************)
(* C8.  Every rejection diagnostic names the wrapper being derived and the *)
(* receiver shape the offending method actually has (a by-value receiver,  *)
(* `mut self` included, as `self`; `&mut self` as `&mut self`; a typed     *)
(* self as an arbitrary receiver type), anchored at that receiver.         *)
(***************************************************************************)
C8_DiagnosticNamesShape ==
    result.tag = "Err" =>
        LET r == trait_.items[result.span.item].sig.receiver IN
        /\ WrapperNamed(result.msg) = strategy
        /\ ShapeNamed(result.msg) = ReceiverKind(r)
        /\ (r.arg # "None" => result.span.node = "receiver")

(***************************************************************************)
(* C9.  On success the implementation holds exactly one forwarding method  *)
(* per input method that has a receiver, in declared order, each carrying  *)
(* the input method's signature unchanged.                                 *)
(***************************************************************************)
HasReceiver(it) == IsMethod(it) /\ it.sig.receiver.arg # "None"

C9_OneMethodPerReceiverMethod ==
    Succeeded =>
        LET want == SelectSeq(trait_.items, HasReceiver) IN
        /\ Len(result.impl.items) = Len(want)
        /\ \A k \in 1..Len(want) : result.impl.items[k].sig = want[k].sig

(***************************************************************************)
(* C10.  Box and Rc skip trait items that are not methods: such an item    *)
(* is never the cause of a rejection and never appears in the              *)
(* implementation, so a successful derivation of an interface with such    *)
(* an item returns fewer items than the interface declares.                *)
(***************************************************************************)
C10_NonMethodsSkipped ==
    strategy \in {"box", "rc"} =>
        /\ Len(methods) = Len(MethodItems(Processed))
        /\ \A k \in 1..Len(methods) :
              methods[k].sig = MethodItems(Processed)[k].sig
        /\ result.tag = "Err" => IsMethod(trait_.items[result.span.item])
        /\ result.tag = "Panic" => IsMethod(trait_.items[idx])
        /\ (Succeeded /\ \E k \in 1..Len(trait_.items) : ~IsMethod(trait_.items[k]))
           => /\ result.impl.items = methods
              /\ Len(result.impl.items) < Len(trait_.items)

\* Rc went past an associated type or constant and still forwarded a method.
C10_Witness ==
    /\ strategy = "rc"
    /\ Succeeded
    /\ \E k \in 1..Len(trait_.items) : ~IsMethod(trait_.items[k])
    /\ Len(result.impl.items) >= 1

====
